---- MODULE Spec2Model ----
(***************************************************************************)
(* Model of autopr/services/publish_service.py: the PublishService report  *)
(* accumulator and body composer, and the GithubPublishService reconciler  *)
(* that pushes each (title, body) snapshot to a remote pull request.       *)
(*                                                                         *)
(* Text is a sequence of atoms, each atom a piece of the string and the    *)
(* string their concatenation.  Every line break is an atom "\n" of its    *)
(* own, every literal of the source is cut into fixed atoms, and caller    *)
(* text is a sequence of atoms of the caller's choosing.                   *)
(***************************************************************************)
EXTENDS Integers, Sequences, FiniteSets, TLC

(* ---------------------------------------------------------------- bounds *)
\* fragments one accumulator may hold in the model
MaxUpdates == 2
\* public operations called on one accumulator in the model
MaxOps == 2
\* pull requests the remote may hold for the (head, base) pair in the model
MaxPRs == 1

(* ------------------------------------------------------------ text atoms *)
NL == "\n"
ProgressHeader == "# Progress updates"
ClickSummary == "Click to see progress updates"
Quote == "> "

RECURSIVE Concat(_)
\* ''.join(parts)
Concat(parts) ==
    IF parts = <<>> THEN <<>> ELSE Head(parts) \o Concat(Tail(parts))

RECURSIVE Join(_, _)
\* sep.join(parts)
Join(sep, parts) ==
    IF parts = <<>> THEN <<>>
    ELSE IF Len(parts) = 1 THEN parts[1]
    ELSE parts[1] \o sep \o Join(sep, Tail(parts))

\* number of occurrences of the atom a in the text s
Count(a, s) == Cardinality({i \in 1..Len(s) : s[i] = a})

RECURSIVE CountAll(_, _)
\* occurrences of the atom a in all the texts of a list
CountAll(a, texts) ==
    IF texts = <<>> THEN 0
    ELSE Count(a, Head(texts)) + CountAll(a, Tail(texts))

Digit(d) == <<"0", "1", "2", "3", "4", "5", "6", "7", "8", "9">>[d + 1]

RECURSIVE str(_)
\* the decimal text of a natural number, as an f-string formats it
str(n) ==
    IF n < 10 THEN <<Digit(n)>> ELSE str(n \div 10) \o <<Digit(n % 10)>>

RECURSIVE SplitFrom(_, _, _)
SplitFrom(s, cur, acc) ==
    IF s = <<>> THEN (IF cur = <<>> THEN acc ELSE Append(acc, cur))
    ELSE IF Head(s) = NL THEN SplitFrom(Tail(s), <<>>, Append(acc, cur))
    ELSE SplitFrom(Tail(s), Append(cur, Head(s)), acc)

\* str.splitlines(): the lines of s without their line breaks; a final line
\* break opens no further line, and the empty text has no line
splitlines(s) == SplitFrom(s, <<>>, <<>>)

\* [f"> {line}" for line in lines]
QuoteLines(lines) == [i \in 1..Len(lines) |-> <<Quote>> \o lines[i]]

(* ------------------------------------------------------------ key titles *)
LowerCase == <<"a", "b", "c", "d", "e", "f", "g", "h", "i", "j", "k", "l", "m",
               "n", "o", "p", "q", "r", "s", "t", "u", "v", "w", "x", "y", "z">>
UpperCase == <<"A", "B", "C", "D", "E", "F", "G", "H", "I", "J", "K", "L", "M",
               "N", "O", "P", "Q", "R", "S", "T", "U", "V", "W", "X", "Y", "Z">>

IsLower(c) == \E i \in 1..Len(LowerCase) : LowerCase[i] = c
IsUpper(c) == \E i \in 1..Len(UpperCase) : UpperCase[i] = c
IsCased(c) == IsLower(c) \/ IsUpper(c)
ToUpper(c) ==
    IF IsLower(c) THEN UpperCase[CHOOSE i \in 1..Len(LowerCase) : LowerCase[i] = c]
    ELSE c
ToLower(c) ==
    IF IsUpper(c) THEN LowerCase[CHOOSE i \in 1..Len(UpperCase) : UpperCase[i] = c]
    ELSE c

\* str.title(): a cased character is upper-cased after an uncased one (or at
\* the start) and lower-cased after a cased one
StrTitle(k) ==
    [i \in 1..Len(k) |->
        IF i = 1 \/ ~IsCased(k[i - 1]) THEN ToUpper(k[i]) ELSE ToLower(k[i])]

\* str.replace("_", " ")
ReplaceUnderscore(k) == [i \in 1..Len(k) |-> IF k[i] = "_" THEN " " ELSE k[i]]

(* ------------------------------------------------------- program objects *)
\* the value None
None == [none |-> TRUE]

\* CommitPlan(commit_message=...)
CommitPlan(message) == [commit_message |-> message]

\* PullRequestDescription(title=..., body=..., commits=...)
PullRequestDescription(title, body, commits) ==
    [title |-> title, body |-> body, commits |-> commits]

(* ------------------------------------------------------ fragment renderer *)
\* k in default_open, default_open a tuple of keys
\* fault variant of the membership test: only the first entry of default_open
\* is compared
KeyIn_first(k, default_open) == default_open # <<>> /\ default_open[1] = k

\* k in default_open
KeyIn(k, default_open) == \E i \in 1..Len(default_open) : default_open[i] = k

\* one pass of the loop of publish_call over kwargs.items()
Subsection(k, v, default_open) ==
    LET title == ReplaceUnderscore(StrTitle(k))
        content == Join(<<NL>>, QuoteLines(splitlines(v)))
    IN  <<IF KeyIn(k, default_open) THEN "<details open>" ELSE "<details>",
          NL, "<summary>">> \o title \o <<"</summary>", NL, NL>>
        \o content \o <<NL, "</details>">>

\* the text publish_call hands to publish_update; kwargs is the ordered
\* sequence of <<key, text>> pairs of the keyword arguments
progress_str(summary, default_open, kwargs) ==
    LET subsections ==
            [i \in 1..Len(kwargs) |->
                Subsection(kwargs[i][1], kwargs[i][2], default_open)]
        joined == Join(<<NL, NL>>, subsections)
        subsections_content == Join(<<NL>>, QuoteLines(splitlines(joined)))
    IN  <<"<details>", NL, "<summary>">> \o summary \o <<"</summary>", NL, NL>>
        \o subsections_content \o <<NL, NL, "</details>", NL>>

(* ----------------------------------------------------------- accumulator *)
\* fault variant of _create_placeholder: the placeholder commit is built but
\* never handed to the recorder
_create_placeholder_uncommitted(issue_) ==
    [committed |-> <<>>,
     pr_desc |-> PullRequestDescription(
                    <<"Fix #">> \o str(issue_.number) \o <<": ">>
                        \o issue_.title,
                    <<>>,
                    <<CommitPlan(<<"[empty] Running...">>)>>)]

\* _create_placeholder(issue): committed is what it hands, in order, to
\* commit_service.commit, and pr_desc the description it returns
_create_placeholder(issue_) ==
    LET empty_commit == CommitPlan(<<"[empty] Running...">>)
    IN  [committed |-> <<empty_commit>>,
         pr_desc |-> PullRequestDescription(
                        <<"Fix #">> \o str(issue_.number) \o <<": ">>
                            \o issue_.title,
                        <<>>,
                        <<empty_commit>>)]

\* fault variant of append_update: the newest fragment is put first
prepend_update(updates, text) == <<text>> \o updates

\* self.progress_updates.append(text)
append_update(updates, text) == Append(updates, text)

(* ---------------------------------------------------------- body composer *)
\* fault variant of _build_progress_updates: no early return on an empty list
_build_progress_updates_unguarded(updates) ==
    <<ProgressHeader, NL>>
    \o Concat([i \in 1..Len(updates) |-> <<NL>> \o updates[i]])

_build_progress_updates(updates) ==
    IF updates = <<>> THEN <<>>
    ELSE <<ProgressHeader, NL>>
         \o Concat([i \in 1..Len(updates) |-> <<NL>> \o updates[i]])

\* fault variant of _build_body: the progress block is wrapped whatever the
\* finalize flag
_build_body_always_wrapped(issue_, desc, updates, finalize) ==
    <<"Fixes #">> \o str(issue_.number) \o <<NL, NL>> \o desc.body
    \o <<"<details>", NL, "  ", "<summary>", ClickSummary,
         "</summary>", NL, NL, "  ">> \o _build_progress_updates(updates)
    \o <<NL, "</details>", NL>>

_build_body(issue_, desc, updates, finalize) ==
    LET progress == _build_progress_updates(updates)
    IN  <<"Fixes #">> \o str(issue_.number) \o <<NL, NL>> \o desc.body
        \o (IF finalize
            THEN <<"<details>", NL, "  ", "<summary>", ClickSummary,
                   "</summary>", NL, NL, "  ">> \o progress
                 \o <<NL, "</details>", NL>>
            ELSE progress)

\* fault variant of update: the body is composed as finalize composes it
update_args_collapsed(issue_, desc, updates) ==
    [title |-> desc.title, body |-> _build_body(issue_, desc, updates, TRUE)]

\* fault variant of update: only the newest fragment is composed and pushed
update_args_latest(issue_, desc, updates) ==
    [title |-> desc.title,
     body |-> _build_body(issue_, desc,
                          IF updates = <<>> THEN <<>>
                          ELSE <<updates[Len(updates)]>>, FALSE)]

\* the (title, body) update() hands to _publish
update_args(issue_, desc, updates) ==
    [title |-> desc.title, body |-> _build_body(issue_, desc, updates, FALSE)]

\* the (title, body) finalize() hands to _publish
finalize_args(issue_, desc, updates) ==
    [title |-> desc.title, body |-> _build_body(issue_, desc, updates, TRUE)]

(* ---------------------------------------------------------------- remote *)
\* a pull request of the (head, base) pair as the remote holds it
RemotePR(number, title, body) ==
    [number |-> number, open |-> TRUE, title |-> title, body |-> body]

\* the JSON array a successful list query answers with: the open requests
OpenPRs(prs) == SelectSeq(prs, LAMBDA pr : pr.open)

\* _find_existing_pr, given the status code and the JSON array of the answer
_find_existing_pr(status_code, prs) ==
    IF status_code = 200
    THEN (IF prs # <<>> THEN prs[1] ELSE None)
    ELSE None

\* one request sent to the remote: failed marks a transport failure (no
\* response, requests raises), found the numbers a list query answered with
Request(method, number, failed, status_code, found) ==
    [method |-> method, number |-> number, failed |-> failed,
     status_code |-> status_code, found |-> found]

Numbers(prs) == [i \in 1..Len(prs) |-> prs[i].number]

(* ---------------------------------------------------------------- inputs *)
Issues ==
    {[number |-> 42, title |-> <<"Fix null pointer">>],
     [number |-> 7, title |-> <<"Typo">>]}

Descriptions ==
    {PullRequestDescription(<<"Guard the lookup">>, <<"Adds a guard.">>,
                            <<CommitPlan(<<"Add guard">>)>>),
     PullRequestDescription(<<"Notes">>, <<ProgressHeader, NL>>, <<>>)}

Texts == {<<"Planning", NL>>, <<"Done">>}

KeyResponse == <<"r", "e", "s", "p", "o", "n", "s", "e">>
KeyNotes == <<"n", "o", "t", "e", "s">>

KeyRawLog == <<"r", "a", "w", "_", "l", "o", "g">>

\* the default of the parameter default_open of publish_call
DefaultOpen == <<KeyResponse>>

\* one call of publish_call: open_given tells whether the caller passes
\* default_open, kwargs is the ordered sequence of <<key, text>> pairs
Call(summary, open_given, default_open, kwargs) ==
    [summary |-> summary, open_given |-> open_given,
     default_open |-> default_open, kwargs |-> kwargs]

\* the value the parameter default_open has inside publish_call
EffectiveOpen(c) == IF c.open_given THEN c.default_open ELSE DefaultOpen

Calls ==
    {Call(<<"Ran tests">>, FALSE, <<>>,
          << <<KeyResponse, <<"ok">>>>, <<KeyNotes, <<"n">>>> >>),
     Call(<<ClickSummary>>, FALSE, <<>>,
          << <<KeyResponse, <<"a", NL, "b">>>> >>)}

\* the keyword arguments and the default_open values of the renderer runs
RenderKwargs ==
    {<<>>,
     << <<KeyResponse, <<"ok">>>>, <<KeyNotes, <<"n">>>> >>,
     << <<KeyNotes, <<"n">>>>, <<KeyResponse, <<"ok">>>> >>,
     << <<KeyResponse, <<>>>> >>,
     << <<KeyResponse, <<"a", NL, "b">>>> >>,
     << <<KeyRawLog, <<"a", NL>>>> >>,
     << <<KeyNotes, <<"a", NL, NL, "b">>>>, <<KeyResponse, <<>>>> >>}

RenderOpens == {<<>>, <<KeyNotes>>, <<KeyNotes, KeyRawLog>>}

RenderCalls ==
    {Call(<<"Ran tests">>, FALSE, <<>>, kw) : kw \in RenderKwargs}
    \cup {Call(<<"Ran tests">>, TRUE, o, kw) :
             o \in RenderOpens, kw \in RenderKwargs}

GetStatuses == {200, 500}
PostStatuses == {201, 422}
PatchStatuses == {200, 422}

(* ----------------------------------------------------------------- state *)
VARIABLES
    pc,                \* "new" before __init__, "idle" between calls, else
                       \* the function whose remote request comes next
    issue,             \* self.issue
    pr_desc,           \* self.pr_desc
    progress_updates,  \* self.progress_updates
    commit_log,        \* the commits handed to commit_service.commit
    remote,            \* the pull requests of (head, base) on the remote
    existing_pr,       \* the local existing_pr of _publish, then of _update
    op,                \* the public operation that runs or ran last
    outcome,           \* "running", or how the last call ended
    publish_calls,     \* the (title, body) of each _publish call of op
    http,              \* the requests op has sent to the remote
    appended,          \* the text of every publish_update call so far
    nops,              \* public operations called so far
    arg                \* the argument of op: a description, a text, a Call

vars == <<pc, issue, pr_desc, progress_updates, commit_log, remote,
          existing_pr, op, outcome, publish_calls, http, appended, nops,
          arg>>

accumulator ==
    <<issue, pr_desc, progress_updates, commit_log, appended, nops, arg>>

Init ==
    /\ pc = "new"
    /\ issue \in Issues
    /\ pr_desc = None
    /\ progress_updates = <<>>
    /\ commit_log = <<>>
    /\ remote = <<>>
    /\ existing_pr = None
    /\ op = "none"
    /\ outcome = "none"
    /\ publish_calls = <<>>
    /\ http = <<>>
    /\ appended = <<>>
    /\ nops = 0
    /\ arg = None

\* PublishService.__init__, reached through GithubPublishService.__init__
Construct ==
    /\ pc = "new"
    /\ pc' = "idle"
    /\ pr_desc' = _create_placeholder(issue).pr_desc
    /\ commit_log' = commit_log \o _create_placeholder(issue).committed
    /\ progress_updates' = <<>>
    /\ op' = "__init__"
    /\ outcome' = "returned"
    /\ UNCHANGED <<issue, remote, existing_pr, publish_calls, http, appended,
                   nops, arg>>

\* a public operation is entered and calls self._publish(args.title, args.body)
Enter(name, input, args) ==
    /\ pc = "idle"
    /\ nops < MaxOps
    /\ nops' = nops + 1
    /\ op' = name
    /\ outcome' = "running"
    /\ publish_calls' = <<args>>
    /\ http' = <<>>
    /\ existing_pr' = None
    /\ pc' = "_publish"
    /\ arg' = input
    /\ UNCHANGED <<issue, commit_log, remote>>

\* fault variant of set_pr_description: the title held so far is kept
set_pr_description_keeps_title ==
    \E pr \in Descriptions :
        /\ pc = "idle"
        /\ pr_desc' = [pr EXCEPT !.title = pr_desc.title]
        /\ Enter("set_pr_description", pr,
                 update_args(issue, pr_desc', progress_updates))
        /\ UNCHANGED <<progress_updates, appended>>

\* set_pr_description(pr)
set_pr_description ==
    \E pr \in Descriptions :
        /\ pr_desc' = pr
        /\ Enter("set_pr_description", pr, update_args(issue, pr, progress_updates))
        /\ UNCHANGED <<progress_updates, appended>>

\* fault variant of publish_update: update() runs before the append
publish_before_append(name, input, text) ==
    /\ Len(progress_updates) < MaxUpdates
    /\ progress_updates' = append_update(progress_updates, text)
    /\ appended' = Append(appended, text)
    /\ Enter(name, input, update_args(issue, pr_desc, progress_updates))
    /\ UNCHANGED pr_desc

\* publish_update(text), called by the caller or by publish_call
do_publish_update(name, input, text) ==
    /\ Len(progress_updates) < MaxUpdates
    /\ progress_updates' = append_update(progress_updates, text)
    /\ appended' = Append(appended, text)
    /\ Enter(name, input, update_args(issue, pr_desc, progress_updates'))
    /\ UNCHANGED pr_desc

publish_update ==
    \E text \in Texts : do_publish_update("publish_update", text, text)

\* publish_call(c.summary, [c.default_open,] **c.kwargs)
publish_call ==
    \E c \in Calls :
        do_publish_update("publish_call", c,
                          progress_str(c.summary, EffectiveOpen(c), c.kwargs))

\* publish_call on the inputs of the renderer runs
render_call ==
    \E c \in RenderCalls :
        do_publish_update("publish_call", c,
                          progress_str(c.summary, EffectiveOpen(c), c.kwargs))

update ==
    /\ Enter("update", None, update_args(issue, pr_desc, progress_updates))
    /\ UNCHANGED <<pr_desc, progress_updates, appended>>

\* fault variant of finalize: the composed progress is also stored into the
\* held description
finalize_accumulating ==
    /\ Enter("finalize", None, finalize_args(issue, pr_desc, progress_updates))
    /\ pr_desc' = [pr_desc EXCEPT
                     !.body = finalize_args(issue, pr_desc, progress_updates).body]
    /\ UNCHANGED <<progress_updates, appended>>

finalize ==
    /\ Enter("finalize", None, finalize_args(issue, pr_desc, progress_updates))
    /\ UNCHANGED <<pr_desc, progress_updates, appended>>

(* ------------------------------------------------------------ reconciler *)
\* the branch _publish takes on the result of its _find_existing_pr
_publish_branch(existing) == IF existing # None THEN "_update" ELSE "_create_pr"

\* the branch _update takes on the result of its own _find_existing_pr
_update_branch(existing) == IF existing = None THEN "return" ELSE "patch"

\* requests.get/post/patch raises: nothing catches it up to the caller
Raise(request) ==
    /\ http' = Append(http, request)
    /\ outcome' = "raised"
    /\ pc' = "idle"
    /\ existing_pr' = None
    /\ UNCHANGED <<accumulator, remote, op, publish_calls>>

\* the call of op returns to the caller
Return ==
    /\ outcome' = "returned"
    /\ pc' = "idle"
    /\ existing_pr' = None

\* _publish: existing_pr = self._find_existing_pr(), then the branch
PublishFind ==
    /\ pc = "_publish"
    /\ \/ Raise(Request("GET", 0, TRUE, 0, <<>>))
       \/ \E status_code \in GetStatuses :
            LET prs == IF status_code = 200 THEN OpenPRs(remote) ELSE <<>>
                found == _find_existing_pr(status_code, prs)
            IN  /\ http' = Append(http, Request("GET", 0, FALSE, status_code,
                                                Numbers(prs)))
                /\ existing_pr' = found
                /\ pc' = _publish_branch(found)
                /\ UNCHANGED <<accumulator, remote, op, outcome,
                               publish_calls>>

\* _create_pr: requests.post and the logging of its answer
CreatePr ==
    /\ pc = "_create_pr"
    /\ \/ Raise(Request("POST", 0, TRUE, 0, <<>>))
       \/ \E status_code \in PostStatuses :
            /\ status_code = 201 => Len(remote) < MaxPRs
            /\ http' = Append(http, Request("POST",
                                            IF status_code = 201
                                            THEN Len(remote) + 1 ELSE 0,
                                            FALSE, status_code, <<>>))
            /\ remote' =
                 IF status_code = 201
                 THEN Append(remote, RemotePR(Len(remote) + 1,
                                              publish_calls[1].title,
                                              publish_calls[1].body))
                 ELSE remote
            /\ Return
            /\ UNCHANGED <<accumulator, op, publish_calls>>

\* _update: existing_pr = self._find_existing_pr(), then the early return
UpdateFind ==
    /\ pc = "_update"
    /\ \/ Raise(Request("GET", 0, TRUE, 0, <<>>))
       \/ \E status_code \in GetStatuses :
            LET prs == IF status_code = 200 THEN OpenPRs(remote) ELSE <<>>
                found == _find_existing_pr(status_code, prs)
            IN  /\ http' = Append(http, Request("GET", 0, FALSE, status_code,
                                                Numbers(prs)))
                /\ IF _update_branch(found) = "return"
                   THEN Return
                   ELSE /\ existing_pr' = found
                        /\ pc' = "patch"
                        /\ UNCHANGED outcome
                /\ UNCHANGED <<accumulator, remote, op, publish_calls>>

\* _update: requests.patch to the number found and the logging of its answer
UpdatePatch ==
    /\ pc = "patch"
    /\ \/ Raise(Request("PATCH", existing_pr.number, TRUE, 0, <<>>))
       \/ \E status_code \in PatchStatuses :
            /\ http' = Append(http, Request("PATCH", existing_pr.number, FALSE,
                                            status_code, <<>>))
            /\ remote' =
                 IF status_code = 200
                 THEN [i \in 1..Len(remote) |->
                         IF remote[i].number = existing_pr.number
                         THEN [remote[i] EXCEPT
                                 !.title = publish_calls[1].title,
                                 !.body = publish_calls[1].body]
                         ELSE remote[i]]
                 ELSE remote
            /\ Return
            /\ UNCHANGED <<accumulator, op, publish_calls>>

(* --------------------------------------------------------- other parties *)
External(prs) ==
    /\ pc # "new"
    /\ remote' = prs
    /\ UNCHANGED <<accumulator, pc, existing_pr, op, outcome, publish_calls,
                   http>>

\* another party closes (or merges) an open request of the pair
ExtClose ==
    \E i \in 1..Len(remote) :
        /\ remote[i].open
        /\ External([remote EXCEPT ![i].open = FALSE])

\* another party opens a request for the pair
ExtCreate ==
    /\ Len(remote) < MaxPRs
    /\ External(Append(remote, RemotePR(Len(remote) + 1, <<"Other">>,
                                        <<"By hand">>)))

Next ==
    \/ Construct
    \/ set_pr_description
    \/ publish_update
    \/ publish_call
    \/ update
    \/ finalize
    \/ PublishFind
    \/ CreatePr
    \/ UpdateFind
    \/ UpdatePatch
    \/ ExtClose
    \/ ExtCreate

Spec == Init /\ [][Next]_vars

\* the accumulator and the reconciler with no other party acting on the remote
NextAlone ==
    \/ Construct
    \/ set_pr_description
    \/ publish_update
    \/ publish_call
    \/ update
    \/ finalize
    \/ PublishFind
    \/ CreatePr
    \/ UpdateFind
    \/ UpdatePatch

SpecAlone == Init /\ [][NextAlone]_vars

\* publish_call on the renderer inputs, each call reconciled with the remote
NextRender ==
    \/ Construct
    \/ render_call
    \/ PublishFind
    \/ CreatePr
    \/ UpdateFind
    \/ UpdatePatch

SpecRender == Init /\ [][NextRender]_vars

(* ---------------------------------------------------------------- claims *)
\* the body handed to _publish by the operation that runs or ran last
PushedBody == publish_calls[1].body
PushedTitle == publish_calls[1].title
HasPushed == publish_calls # <<>>

\* the requests of the running or last call with the given method
Sent(method) == {i \in 1..Len(http) : http[i].method = method}

\* the last n atoms of s
Suffix(s, n) == SubSeq(s, Len(s) - n + 1, Len(s))

\* the opening and the closing of the wrapper finalize puts around progress
WrapperOpen ==
    <<"<details>", NL, "  ", "<summary>", ClickSummary, "</summary>", NL, NL,
      "  ">>
WrapperClose == <<NL, "</details>", NL>>

RECURSIVE FragmentsText(_)
\* every fragment preceded by a line break, in order
FragmentsText(fragments) ==
    IF fragments = <<>> THEN <<>>
    ELSE <<NL>> \o Head(fragments) \o FragmentsText(Tail(fragments))

\* the progress block of a non-empty fragment list: header line, fragments
ProgressBlock(fragments) == <<ProgressHeader, NL>> \o FragmentsText(fragments)

\* "Fixes #<number>", a blank line, the description body
BodyStart ==
    <<"Fixes #">>
    \o (IF issue.number = 42 THEN <<"4", "2">> ELSE <<"7">>)
    \o <<NL, NL>> \o pr_desc.body

\* the fragments publish_call can produce from the inputs of the model
RenderedFragments ==
    {progress_str(c.summary, EffectiveOpen(c), c.kwargs) : c \in Calls}

\* C1 (as claimed): when a publish call has returned and its find query
\* answered 200, then if the answer held a request a PATCH went to the number
\* of the first one and no POST was sent, and if it held none a POST was sent
\* and no PATCH.
C1_BranchSelection ==
    (pc = "idle" /\ outcome = "returned" /\ Len(http) >= 1
        /\ http[1].status_code = 200)
    => IF http[1].found # <<>>
       THEN /\ \E i \in Sent("PATCH") : http[i].number = http[1].found[1]
            /\ Sent("POST") = {}
       ELSE /\ Sent("POST") # {}
            /\ Sent("PATCH") = {}

\* C2 (as claimed): when the find query of a publish call is answered with a
\* status other than 200, the call sends no POST and no PATCH.
C2_FindFailureIsNoOp ==
    (Len(http) >= 1 /\ ~http[1].failed /\ http[1].status_code # 200)
    => Sent("POST") = {} /\ Sent("PATCH") = {}

\* C3 (as claimed): whatever the outcome of each remote call, no public
\* operation ends with an exception reaching the caller.
C3_NoExceptionReachesCaller == outcome # "raised"

\* C4: the fragment list is, element by element and in call order, the list of
\* the texts passed to publish_update (by the caller or by publish_call) so
\* far, whether or not the publish of each call succeeded.
C4_AppendOnly == progress_updates = appended

C4_Witness ==
    /\ Len(progress_updates) = 2
    /\ progress_updates[1] # progress_updates[2]
    /\ outcome = "raised"

\* C5: a call of set_pr_description, publish_update or publish_call makes one
\* _publish call, whose title is the title of the description held after the
\* change and whose body is the non-finalized composition of the description
\* and the fragments held after the change.
C5_MutatorEndsInPush ==
    op \in {"set_pr_description", "publish_update", "publish_call"}
    => /\ Len(publish_calls) = 1
       /\ PushedTitle = pr_desc.title
       /\ PushedBody = _build_body(issue, pr_desc, progress_updates, FALSE)

C5_Witness ==
    /\ op = "publish_update"
    /\ Len(progress_updates) = 2
    /\ pc = "idle"
    /\ outcome = "returned"

\* C6: construction hands exactly one commit, with message
\* "[empty] Running...", to the commit recorder and leaves the title
\* "Fix #<number>: <issue title>", an empty body, that commit as the only
\* commit and no fragment; no later operation hands the recorder a commit.
C6_Initialization ==
    /\ pc = "new" => commit_log = <<>>
    /\ pc # "new" => commit_log = <<[commit_message |-> <<"[empty] Running...">>]>>
    /\ op = "__init__"
       => /\ pr_desc.title =
               <<"Fix #">>
               \o (IF issue.number = 42 THEN <<"4", "2">> ELSE <<"7">>)
               \o <<": ">> \o issue.title
          /\ pr_desc.body = <<>>
          /\ pr_desc.commits = commit_log
          /\ progress_updates = <<>>

C6_Witness ==
    /\ nops = 2
    /\ op = "set_pr_description"
    /\ pc = "idle"
    /\ Len(commit_log) = 1

\* C7 (as claimed): with a non-empty list of rendered fragments, the body
\* finalize pushes holds exactly one "Click to see progress updates" and the
\* body any other operation pushes holds none.
C7_ExactlyOneOccurrence ==
    (HasPushed /\ progress_updates # <<>>
        /\ \A i \in 1..Len(progress_updates) :
              progress_updates[i] \in RenderedFragments)
    => Count(ClickSummary, PushedBody) = (IF op = "finalize" THEN 1 ELSE 0)

\* C7 (amended): with a non-empty fragment list, the body finalize pushes
\* holds exactly one "Click to see progress updates" more than the description
\* body and the fragments hold themselves, and ends with the whole progress
\* block inside the one wrapper; the body any other operation pushes holds
\* exactly as many as they hold, and ends with the progress block unwrapped.
C7_FinalizeWrapping ==
    (HasPushed /\ progress_updates # <<>>)
    => LET inside == Count(ClickSummary, pr_desc.body)
                     + CountAll(ClickSummary, appended)
           block == ProgressBlock(appended)
       IN  IF op = "finalize"
           THEN /\ Count(ClickSummary, PushedBody) = 1 + inside
                /\ PushedBody = BodyStart \o WrapperOpen \o block \o WrapperClose
           ELSE /\ Count(ClickSummary, PushedBody) = inside
                /\ PushedBody = BodyStart \o block

C7_Witness ==
    /\ op = "finalize"
    /\ progress_updates # <<>>
    /\ CountAll(ClickSummary, progress_updates) = 1
    /\ Count(ClickSummary, PushedBody) = 2

\* C8 (as claimed): with an empty fragment list every pushed body is exactly
\* "Fixes #<number>", a blank line and the description body, for update and
\* for finalize.
C8_EmptyListNoProgressSection ==
    (HasPushed /\ progress_updates = <<>>) => PushedBody = BodyStart

\* C9: with an empty fragment list no pushed body holds a "# Progress updates"
\* header other than those of the description body itself.
C9_NoHeaderWhenEmpty ==
    (HasPushed /\ progress_updates = <<>>)
    => Count(ProgressHeader, PushedBody) = Count(ProgressHeader, pr_desc.body)

C9_Witness ==
    /\ op = "finalize"
    /\ progress_updates = <<>>
    /\ Count(ProgressHeader, pr_desc.body) = 1
    /\ pc = "idle"

\* C10: update and finalize leave the description and the fragment list
\* unchanged, and a finalize (an update) that follows a finalize (an update)
\* with no other operation between them pushes the same (title, body).
C10_CompositionIdempotent ==
    [][(pc = "idle" /\ pc' = "_publish" /\ op' \in {"update", "finalize"})
       => /\ pr_desc' = pr_desc
          /\ progress_updates' = progress_updates
          /\ op = op' => publish_calls' = publish_calls]_vars

\* a second finalize in a row has pushed: the first one's wrapper is on the
\* remote and the second one changed nothing there
C10_Witness ==
    /\ nops = 2
    /\ op = "finalize"
    /\ outcome = "raised"
    /\ Len(http) = 1
    /\ progress_updates = <<>>
    /\ Len(remote) = 1
    /\ Count(ClickSummary, remote[1].body) = 1

(* ---------------------------------------------------- rendered fragments *)
\* the fragment the running publish_call appended
LastFragment == appended[Len(appended)]

\* publish_call has appended its fragment and hands the body to _publish;
\* arg holds the parameters of the call
CallRendered == op = "publish_call" /\ pc = "_publish"

\* the lines of a fragment (L) that open a section block, in order
IsSectionOpen(line) ==
    line = <<Quote, "<details>">> \/ line = <<Quote, "<details open>">>
SectionStarts(L) == {j \in 1..Len(L) : IsSectionOpen(L[j])}
SectionStart(L, i) ==
    CHOOSE j \in SectionStarts(L) :
        Cardinality({h \in SectionStarts(L) : h < j}) = i - 1
\* the line that closes the block opened at line j
SectionEnd(L, j) ==
    CHOOSE e \in (j + 1)..Len(L) :
        /\ L[e] = <<Quote, "</details>">>
        /\ \A h \in (j + 1)..(e - 1) : L[h] # <<Quote, "</details>">>
\* the content lines of the i-th section block: those after its opening
\* line, its summary line and the blank line, up to its closing line
SectionContent(L, i) ==
    LET j == SectionStart(L, i) IN SubSeq(L, j + 3, SectionEnd(L, j) - 1)

\* the quoted lines a section text stands for inside the outer quoted block
QuotedInBlock(lines) == [h \in 1..Len(lines) |-> <<Quote, Quote>> \o lines[h]]

\* C11: in the fragment publish_call renders, the content of a section whose
\* text is empty is exactly one empty quoted line, and the content of a
\* section whose text has k lines is these k lines, quoted, in order
C11_QuotedLines ==
    CallRendered =>
        LET L == splitlines(LastFragment) IN
        /\ Cardinality(SectionStarts(L)) = Len(arg.kwargs)
        /\ \A i \in 1..Len(arg.kwargs) :
              SectionContent(L, i) =
                  IF arg.kwargs[i][2] = <<>>
                  THEN QuotedInBlock(<< <<>> >>)
                  ELSE QuotedInBlock(splitlines(arg.kwargs[i][2]))

\* the part of C11 on non-empty section texts
C11_NonEmptyTexts ==
    CallRendered =>
        LET L == splitlines(LastFragment) IN
        /\ Cardinality(SectionStarts(L)) = Len(arg.kwargs)
        /\ \A i \in 1..Len(arg.kwargs) :
              arg.kwargs[i][2] # <<>> =>
                  SectionContent(L, i) =
                      QuotedInBlock(splitlines(arg.kwargs[i][2]))

\* the keys whose blocks are to be open: those the caller gives, else response
OpenKeys(c) ==
    IF c.open_given THEN {c.default_open[j] : j \in 1..Len(c.default_open)}
    ELSE {KeyResponse}

\* the summary line of a section block in the fragment
SectionSummary(k) ==
    <<Quote, "<summary>">> \o ReplaceUnderscore(StrTitle(k)) \o <<"</summary>">>

\* C12: in a rendered fragment the block of a section is marked open iff its
\* key is in default_open ({response} when the caller gives none), the
\* blocks follow the caller's order of the sections, and the outer block,
\* titled by the summary, is not marked open
C12_DefaultOpenPolicy ==
    CallRendered =>
        LET L == splitlines(LastFragment) IN
        /\ L[1] = <<"<details>">>
        /\ L[2] = <<"<summary>">> \o arg.summary \o <<"</summary>">>
        /\ \A j \in 1..Len(L) : L[j] # <<"<details open>">>
        /\ Cardinality(SectionStarts(L)) = Len(arg.kwargs)
        /\ \A i \in 1..Len(arg.kwargs) :
              LET j == SectionStart(L, i) IN
              /\ L[j] = <<Quote, "<details open>">>
                    <=> arg.kwargs[i][1] \in OpenKeys(arg)
              /\ L[j + 1] = SectionSummary(arg.kwargs[i][1])

\* a call without default_open whose sections are notes, then response: the
\* first block is closed and the second is open
C12_Witness ==
    /\ CallRendered
    /\ ~arg.open_given
    /\ Len(arg.kwargs) = 2
    /\ arg.kwargs[1][1] = KeyNotes
    /\ arg.kwargs[2][1] = KeyResponse
    /\ LET L == splitlines(LastFragment) IN
       /\ L[SectionStart(L, 1)] = <<Quote, "<details>">>
       /\ L[SectionStart(L, 2)] = <<Quote, "<details open>">>

\* C13 (as claimed): every call of _publish issues exactly one find query,
\* followed by at most one write (one POST or one PATCH), and holds nothing
\* found by an earlier call when it starts
C13_OneFindPerPublish ==
    /\ Cardinality(Sent("GET")) <= 1
    /\ Cardinality(Sent("POST") \cup Sent("PATCH")) <= 1
    /\ \A g \in Sent("GET") : \A w \in Sent("POST") \cup Sent("PATCH") : g < w
    /\ (HasPushed /\ pc = "idle" /\ outcome = "returned")
          => Cardinality(Sent("GET")) = 1
    /\ pc \in {"idle", "_publish"} => existing_pr = None

\* the operations that end in update()
Mutators == {"set_pr_description", "publish_update", "publish_call", "update"}

\* the running call has just had its write accepted by the remote
WriteSucceeded ==
    /\ pc = "idle"
    /\ outcome = "returned"
    /\ http # <<>>
    /\ LET last == http[Len(http)]
       IN  \/ last.method = "POST" /\ last.status_code = 201
           \/ last.method = "PATCH" /\ last.status_code = 200

\* the request of the remote the last write went to
Written ==
    LET n == http[Len(http)].number
    IN  remote[CHOOSE i \in 1..Len(remote) : remote[i].number = n]

\* C14: when the write of a mutation succeeds, whatever failed before, the
\* remote request it wrote has the title of the held description and the body
\* composed of the held description and of all fragments appended so far, in
\* order, those whose own publish failed included
C14_RetryPushesFullState ==
    (WriteSucceeded /\ op \in Mutators) =>
        /\ Written.title = pr_desc.title
        /\ Written.body =
              BodyStart \o (IF appended = <<>> THEN <<>>
                            ELSE ProgressBlock(appended))

\* the second mutation creates the request: the publish of the first, which
\* appended a fragment, wrote nothing, and the created body holds both
\* fragments
C14_Witness ==
    /\ WriteSucceeded
    /\ op \in Mutators
    /\ nops = 2
    /\ Len(appended) = 2
    /\ http[Len(http)].method = "POST"
    /\ Len(remote) = 1
    /\ remote[1].body = BodyStart \o ProgressBlock(appended)

\* a public operation is entered by this step
Entered(name) == pc = "idle" /\ pc' = "_publish" /\ op' = name

\* C15: set_pr_description replaces the whole held description by its
\* argument and leaves the fragment list unchanged; publish_update and
\* publish_call leave the description unchanged and add one fragment; no
\* step of the reconciler touches either; so the held description is the
\* placeholder or the one set last, and every pushed title is its title
C15_MutatorFrame ==
    [][/\ Entered("set_pr_description") =>
            /\ arg' \in Descriptions
            /\ pr_desc' = arg'
            /\ progress_updates' = progress_updates
       /\ (Entered("publish_update") \/ Entered("publish_call")) =>
            /\ pr_desc' = pr_desc
            /\ Len(progress_updates') = Len(progress_updates) + 1
            /\ SubSeq(progress_updates', 1, Len(progress_updates))
                  = progress_updates
       /\ (pc # "new" /\ ~Entered("set_pr_description")) => pr_desc' = pr_desc
       /\ pc \notin {"new", "idle"} => progress_updates' = progress_updates
       /\ pc' # "new" =>
            pr_desc' \in Descriptions \cup {_create_placeholder(issue').pr_desc}
       /\ HasPushed' => PushedTitle' = pr_desc'.title
      ]_vars

\* a description was set and the publish_call after it pushes its title
C15_Witness ==
    /\ op = "publish_call"
    /\ pc = "_publish"
    /\ nops = 2
    /\ pr_desc \in Descriptions
    /\ PushedTitle = pr_desc.title
    /\ Len(progress_updates) = 1

\* C16 (as claimed): a body composed with finalize=false from a non-empty
\* fragment list is "Fixes #<number>", a blank line, the description body,
\* then the progress block, whose header "# Progress updates" starts at the
\* beginning of a line whatever the description body, and then each fragment
\* preceded by a blank line, in accumulation order
C16_HeaderOnOwnLine ==
    (HasPushed /\ op \in Mutators /\ appended # <<>>) =>
        LET h == Len(BodyStart) + 1 IN
        /\ PushedBody = BodyStart \o ProgressBlock(appended)
        /\ PushedBody[h] = ProgressHeader
        /\ PushedBody[h - 1] = NL
        /\ PushedBody[h + 1] = NL

\* C17 (as claimed): when no other party changes the remote, the remote
\* accepts at most one create for the pair, and a create request is sent
\* only while the remote holds no open request of the pair, whatever find,
\* create or update calls failed before
C17_SingleRemoteRequest ==
    /\ Len(remote) <= 1
    /\ pc = "_create_pr" => OpenPRs(remote) = <<>>

\* the operations that change the accumulator
Changers == {"set_pr_description", "publish_update", "publish_call"}

\* body is the composition of the held description with its progress inside
\* the collapsing wrapper
Collapsed(body) ==
    /\ Len(body) >= Len(BodyStart) + Len(WrapperOpen)
    /\ SubSeq(body, 1, Len(BodyStart) + Len(WrapperOpen))
          = BodyStart \o WrapperOpen

\* C18: finalize records nothing in the accumulator; a set_pr_description,
\* publish_update or publish_call, after a finalize as at any other time,
\* pushes the body composed with finalize=false, which is what a successful
\* PATCH puts in place of the body on the remote; a pushed body is collapsed
\* only if the operation called last is finalize
C18_FinalizeNotSticky ==
    [][/\ Entered("finalize") =>
            /\ pr_desc' = pr_desc
            /\ progress_updates' = progress_updates
       /\ (\E name \in Changers : Entered(name)) =>
            PushedBody' = BodyStart' \o (IF appended' = <<>> THEN <<>>
                                        ELSE ProgressBlock(appended'))
       /\ HasPushed' /\ Collapsed(PushedBody)' => op' = "finalize"
       /\ (pc = "patch" /\ pc' = "idle" /\ op \in Changers
             /\ remote' # remote) =>
            \E i \in 1..Len(remote) :
                /\ remote[i].number = existing_pr.number
                /\ remote'[i].body = PushedBody
                /\ ~Collapsed(remote'[i].body)
      ]_vars

\* finalize put a collapsed body on request #1; the publish_update called
\* after it found the request and is about to PATCH it with its own body
C18_Witness ==
    /\ pc = "patch"
    /\ op = "publish_update"
    /\ nops = 2
    /\ existing_pr.number = 1
    /\ Collapsed(remote[1].body)
    /\ ~Collapsed(PushedBody)

====
